---- MODULE Spec2Model ----
(***************************************************************************)
(* Browser front end of the document search system: the document list,     *)
(* the search form and the answer view, and the upload form.  The page is  *)
(* served with one of two search scripts: front end "A" (search.js, with   *)
(* its own displayAnswer) or front end "B" (api.js performSearch called    *)
(* from the click handler of ui.js).                                       *)
(***************************************************************************)
EXTENDS Integers, Sequences, FiniteSets

VARIABLES
    \* ---- document list (documents.js)
    serverDocs,      \* the folders the server lists, in the order it returns them
    listCalls,       \* the loadDocumentList calls awaiting their response, oldest first
    documentGrid,    \* content of #document-grid
    latestGrid,      \* what the response of the call issued last put in the grid
    \* ---- search form (search.js / api.js + ui.js)
    frontend,        \* "A": search.js performSearch; "B": ui.js handler + api.js
    queryValue,      \* value of #query
    maxDocumentsValue,   \* value of #max-documents
    includeImagesChecked,\* #include-images checked
    searchInFlight,  \* ids of the search requests awaiting a response
    nextSearchId,    \* id the next search request gets
    lastRequest,     \* body of the search request sent last
    loadingShown,    \* #loading displayed
    errorShown,      \* #error-message displayed
    errorText,       \* #error-message textContent
    answerShown,     \* #answer-section displayed
    mainAnswer,      \* content of #main-answer
    sourceDocuments, \* content of #source-documents
    serverAnswer,    \* body the server gives an OK search response
    renderedFrom,    \* the response body displayAnswer rendered last
    noAnswerView,    \* what was visible after the last response without an answer
    failureView,     \* what was visible after the last failed search request
    observeOutcomes, \* whether noAnswerView, failureView and alertText are being recorded
    shownSearch,     \* observer: the search request whose response was handled last (0: none)
    \* ---- upload form (documents.js) and showErrorMessage (ui.js)
    selectedFile,    \* name of the file chosen in #document-file, <<>> when none
    errorHideTimers, \* pending timers of showErrorMessage
    uploadBtnDisabled,   \* #upload-btn disabled
    uploadProgressShown, \* #upload-progress displayed
    progressWidth,   \* width of #progress-value, in percent
    progressStatus,  \* text of #progress-status
    progressErrorColor,  \* #progress-value has the error colour
    uploadInFlight,  \* file names of the upload requests awaiting a response
    uploadTimers,    \* pending timers of uploadDocument, oldest first
    \* ---- confirmation modal (ui.js), delete and consolidate (documents.js)
    confirmShown,    \* #confirmModal displayed
    confirmMessage,  \* what #confirmTitle / #confirmMessage ask about
    confirmYes,      \* what the click listener of #confirmYes resumes
    confirmPending,  \* observer: the promises of showConfirmModal not yet resolved, in call order
    observeConfirms, \* whether confirmPending is recorded
    deleteInFlight,  \* folder names of the DELETE requests awaiting a response
    deletedFolders,  \* folders whose DELETE request succeeded
    consolidateInFlight, \* number of consolidate requests awaiting a response
    consolidateBtnDisabled,  \* #consolidate-btn disabled
    consolidateBtnLabel, \* textContent of #consolidate-btn
    alertText,       \* message of the last alert() recorded, none before the first
    \* ---- document detail (documents.js viewDocument, ui.js showDocumentModal)
    viewInFlight,    \* folder names of the detail requests awaiting a response
    serverDetail,    \* document data the server gives an OK detail response
    documentModal,   \* #documentModal: displayed or not, and its content
    \* ---- tabs (ui.js initTabs)
    activeTabBtns,   \* data-tab of the .tab-btn elements that have the class active
    activeTabContents,   \* ids of the .tab-content elements that have the class active
    \* ---- text excerpts (documents.js truncateText, search.js source text)
    truncateArgs,    \* the text and maxLength an excerpt is made of
    truncated,       \* what truncateText returned, once called
    textPreview      \* the .source-text element of the source document, once built

listVars == <<serverDocs, listCalls, documentGrid, latestGrid>>

formVars == <<frontend, queryValue, maxDocumentsValue, includeImagesChecked>>

requestVars == <<searchInFlight, nextSearchId, lastRequest>>

answerVars == <<serverAnswer, renderedFrom>>

outcomeVars == <<noAnswerView, failureView, observeOutcomes, shownSearch>>

viewVars == <<loadingShown, errorShown, errorText, answerShown, mainAnswer,
              sourceDocuments>>

searchVars == <<formVars, requestVars, viewVars, answerVars, outcomeVars>>

fileVars == <<selectedFile, errorHideTimers>>

uploadVars == <<uploadBtnDisabled, uploadProgressShown, progressWidth,
                progressStatus, progressErrorColor, uploadInFlight, uploadTimers>>

confirmVars == <<confirmShown, confirmMessage, confirmYes, confirmPending, observeConfirms>>

consolidateVars == <<consolidateInFlight, consolidateBtnDisabled, consolidateBtnLabel>>

detailVars == <<viewInFlight, serverDetail, documentModal>>

manageVars == <<confirmVars, deleteInFlight, deletedFolders, consolidateVars,
                alertText, detailVars>>

tabVars == <<activeTabBtns, activeTabContents>>

excerptVars == <<truncateArgs, truncated, textPreview>>

vars == <<listVars, searchVars, fileVars, uploadVars, manageVars, tabVars, excerptVars>>

\* ------------------------------------------------------------------ bounds
MaxListDocs == 3      \* folders in a list response
MaxTime == 2          \* distinct created_at instants
MaxListLoads == 2     \* overlapping list requests
MaxValueLen == 2      \* characters typed into #max-documents
MaxSearches == 3      \* search requests sent in one behaviour
MaxSourceDocs == 2    \* source documents of a search response
MaxImages == 4        \* images of a source document / of a response
MaxScore == 2         \* distinct scores
MaxTimers == 2        \* pending timers of showErrorMessage
MaxDeletes == 1       \* DELETE requests awaiting a response
MaxManaged == 2       \* folders in the store of the documents tab
MaxPages == 2         \* pages of a document; page numbers
MaxViews == 1         \* detail requests awaiting a response
MaxTextLen == 3       \* characters of a short text; distance of a long text's length from the limit

\* ------------------------------------------------------------- helpers
Min(a, b) == IF a < b THEN a ELSE b

Range(s) == {s[i] : i \in 1..Len(s)}

Injective(f) == \A i, j \in DOMAIN f : f[i] = f[j] => i = j

SeqsUpTo(S, n) == UNION {[1..k -> S] : k \in 0..n}

\* -----------------------------------------------------------------
\* Document list
\* -----------------------------------------------------------------
\* A folder of a list response.  folder_name is the rank of the name in the
\* locale's collation order (names are distinct); created_at is 0 when the
\* field is absent (null, undefined or ''), otherwise the instant it denotes.
FolderNames == 1..MaxListDocs
CreatedAts == 0..MaxTime

\* document_type as the server sends it; "" when the field is absent
DocumentTypes == {"consolidated", "individual", ""}

ListDoc == [folder_name : FolderNames, created_at : CreatedAts,
            document_type : DocumentTypes]

ListResponses ==
    {s \in SeqsUpTo(ListDoc, MaxListDocs) :
        \A i, j \in 1..Len(s) : s[i].folder_name = s[j].folder_name => i = j}

\* String.prototype.localeCompare on two folder names
localeCompare(a, b) == IF a < b THEN -1 ELSE IF a > b THEN 1 ELSE 0

\* the comparator handed to documents.sort
sortCompare(a, b) ==
    IF a.created_at # 0 /\ b.created_at # 0
    THEN b.created_at - a.created_at
    ELSE localeCompare(a.folder_name, b.folder_name)

\* ECMAScript's "consistent comparator" conditions over the elements of docs
ConsistentComparator(docs) ==
    LET S == Range(docs)
        eq(a, b) == sortCompare(a, b) = 0
        lt(a, b) == sortCompare(a, b) < 0
        gt(a, b) == sortCompare(a, b) > 0
    IN /\ \A a \in S : eq(a, a)
       /\ \A a, b \in S : /\ eq(a, b) => eq(b, a)
                          /\ lt(a, b) => gt(b, a)
                          /\ gt(a, b) => lt(b, a)
       /\ \A a, b, c \in S : /\ (eq(a, b) /\ eq(b, c)) => eq(a, c)
                             /\ (lt(a, b) /\ lt(b, c)) => lt(a, c)
                             /\ (gt(a, b) /\ gt(b, c)) => gt(a, c)

IndexPermutations(n) == {f \in [1..n -> 1..n] : Injective(f)}

\* Array.prototype.sort: a stable sort by the comparator; when the comparator
\* is not consistent on the array the resulting order is implementation-
\* defined, i.e. any permutation.
ArraySort(docs) ==
    LET n == Len(docs)
        stable(f) == \A i, j \in 1..n : i < j =>
                        \/ sortCompare(docs[f[i]], docs[f[j]]) < 0
                        \/ /\ sortCompare(docs[f[i]], docs[f[j]]) = 0
                           /\ f[i] < f[j]
    IN {[i \in 1..n |-> docs[f[i]]] :
            f \in {g \in IndexPermutations(n) : ConsistentComparator(docs) => stable(g)}}

createDocumentCard_TypeFromPresence(doc) ==
    [folder_name |-> doc.folder_name, created_at |-> doc.created_at,
     typeText |-> IF doc.document_type # ""
                  THEN "consolidated document" ELSE "individual pages"]

createDocumentCard(doc) ==
    [folder_name |-> doc.folder_name, created_at |-> doc.created_at,
     typeText |-> IF doc.document_type = "consolidated"
                  THEN "consolidated document" ELSE "individual pages"]

\* displayDocumentList(documents): the grid contents it can leave
displayDocumentList(documents) ==
    IF Len(documents) = 0
    THEN {[kind |-> "empty", cards |-> <<>>]}
    ELSE {[kind |-> "cards",
           cards |-> [i \in 1..Len(sorted) |-> createDocumentCard(sorted[i])]] :
              sorted \in ArraySort(documents)}

\* number of GET /api/documents/list requests awaiting a response
listInFlight == Len(listCalls)

\* the body of a call the server has not answered yet
Unserved == [served |-> FALSE]

NoGrid == [kind |-> "none"]

\* a call is added: it is the one issued last
IssueCall(calls) ==
    Append([i \in 1..Len(calls) |-> [calls[i] EXCEPT !.latest = FALSE]],
           [latest |-> TRUE, body |-> Unserved])

\* the calls in flight when the page has called loadDocumentList once
PageLoadCalls == IssueCall(<<>>)

\* The server answers a call at some moment between its request and the
\* delivery of its response.  When the store changes from old to new, each
\* call not answered yet has been answered from the old store or will be
\* answered later
StoreChanged(calls, old, new) ==
    IF old = new THEN {calls}
    ELSE {[i \in 1..Len(calls) |->
              IF i \in answered
              THEN [calls[i] EXCEPT !.body = [served |-> TRUE, documents |-> old]]
              ELSE calls[i]] :
            answered \in SUBSET {i \in 1..Len(calls) : ~calls[i].body.served}}

\* result.documents of the response to a call in flight
ResponseDocuments(call) ==
    IF call.body.served THEN call.body.documents ELSE serverDocs

RemoveAt(s, i) == [j \in 1..(Len(s) - 1) |-> s[IF j < i THEN j ELSE j + 1]]

\* the response of the call at position i has been handled: the call is
\* over; what the call issued last displayed is kept in latestGrid while
\* the outcomes are being recorded
CallCompleted(i) ==
    /\ listCalls' = RemoveAt(listCalls, i)
    /\ latestGrid' = IF observeOutcomes /\ listCalls[i].latest
                     THEN documentGrid' ELSE latestGrid

\* ---- tabs
\* data-tab of the two .tab-btn elements
Tabs == {<<"search">>, <<"documents">>}

\* `${tabId}-tab`
TabContentId(tabId) == tabId \o <<"-tab">>

\* id of the two .tab-content sections
TabContents == {<<"search", "-tab">>, <<"documents", "-tab">>}

\* the classes of the page as delivered
TabsLoaded ==
    /\ activeTabBtns = {<<"search">>}
    /\ activeTabContents = {<<"search", "-tab">>}

\* -----------------------------------------------------------------
\* Text excerpts
\* -----------------------------------------------------------------
Max(a, b) == IF a > b THEN a ELSE b

\* maxLength of the card summary and length limit of the source text
SummaryMax == 100
PreviewMax == 300

\* a text as the server sends it: a string, or the field is absent / null
Str(chars) == [type |-> "string", chars |-> chars]
UndefinedText == [type |-> "undefined", chars |-> <<>>]
NullText == [type |-> "null", chars |-> <<>>]

TextChars == {"a", "b"}

\* a string of n characters, no two neighbours alike
LongText(n) == [i \in 1..n |-> IF i % 2 = 1 THEN "a" ELSE "b"]

\* lengths around the two limits
LongLengths ==
    UNION {Max(0, limit - MaxTextLen)..(limit + MaxTextLen) :
              limit \in {SummaryMax, PreviewMax}}

Texts ==
    {UndefinedText, NullText}
        \cup {Str(chars) : chars \in SeqsUpTo(TextChars, MaxTextLen)}
        \cup {Str(LongText(n)) : n \in LongLengths}

MaxLengths == 0..MaxTextLen \cup {SummaryMax, PreviewMax}

\* !text
Falsy(text) == text.type # "string" \/ text.chars = <<>>

\* String.prototype.substring(start, end): both clamped to 0..length, the
\* smaller one taken as the start
substring(chars, start, end) ==
    LET clamp(x) == Max(0, Min(x, Len(chars)))
        from == Min(clamp(start), clamp(end))
        to == Max(clamp(start), clamp(end))
    IN SubSeq(chars, from + 1, to)

Ellipsis == <<".", ".", ".">>

truncateText_CutsAtLimit(text, maxLength) ==
    IF Falsy(text) THEN <<>>
    ELSE IF Len(text.chars) < maxLength THEN text.chars
    ELSE substring(text.chars, 0, maxLength) \o Ellipsis

\* truncateText(text, maxLength)
truncateText(text, maxLength) ==
    IF Falsy(text) THEN <<>>
    ELSE IF Len(text.chars) <= maxLength THEN text.chars
    ELSE substring(text.chars, 0, maxLength) \o Ellipsis

NotTruncated == [called |-> FALSE, chars |-> <<>>]
NoPreview == [built |-> FALSE, shown |-> FALSE, chars |-> <<>>]

\* createSourceDocumentElement, the part for doc.text: the .source-text
\* element is made only for a text that is not missing or empty
sourceText(text) ==
    IF Falsy(text)
    THEN [built |-> TRUE, shown |-> FALSE, chars |-> <<>>]
    ELSE [built |-> TRUE, shown |-> TRUE,
          chars |-> IF Len(text.chars) > PreviewMax
                    THEN substring(text.chars, 0, PreviewMax) \o Ellipsis
                    ELSE text.chars]

\* no excerpt is being made
ExcerptIdle ==
    /\ truncateArgs = [text |-> UndefinedText, maxLength |-> 0]
    /\ truncated = NotTruncated
    /\ textPreview = NoPreview

\* the call issued last is awaiting its response
LatestInFlight == \E i \in 1..Len(listCalls) : listCalls[i].latest

\* loadDocumentList, up to the await of fetch
LoadDocumentList ==
    /\ listInFlight < MaxListLoads
    /\ documentGrid' = [kind |-> "loading", cards |-> <<>>]
    /\ listCalls' = IssueCall(listCalls)
    /\ UNCHANGED <<excerptVars, tabVars, serverDocs, latestGrid, searchVars,
                   fileVars, uploadVars, manageVars>>

TabClick_KeepsOtherContent ==
    \E btn \in Tabs :
       /\ activeTabBtns' = (activeTabBtns \ Tabs) \cup {btn}
       /\ activeTabContents' = activeTabContents \cup
             {content \in TabContents : content = TabContentId(btn)}
       /\ IF btn = <<"documents">>
          THEN /\ listInFlight < MaxListLoads
               /\ documentGrid' = [kind |-> "loading", cards |-> <<>>]
               /\ listCalls' = IssueCall(listCalls)
          ELSE UNCHANGED <<listCalls, documentGrid>>
       /\ UNCHANGED <<excerptVars, serverDocs, latestGrid, searchVars, fileVars,
                      uploadVars, manageVars>>

\* click on a .tab-btn: the button alone gets the class active, the content
\* whose id is `${tabId}-tab` gets it and every other content loses it; the
\* documents tab also calls loadDocumentList
TabClick ==
    \E btn \in Tabs :
       /\ activeTabBtns' = (activeTabBtns \ Tabs) \cup {btn}
       /\ activeTabContents' =
             (activeTabContents \ {content \in TabContents : content # TabContentId(btn)})
                \cup {content \in TabContents : content = TabContentId(btn)}
       /\ IF btn = <<"documents">>
          THEN /\ listInFlight < MaxListLoads
               /\ documentGrid' = [kind |-> "loading", cards |-> <<>>]
               /\ listCalls' = IssueCall(listCalls)
          ELSE UNCHANGED <<listCalls, documentGrid>>
       /\ UNCHANGED <<excerptVars, serverDocs, latestGrid, searchVars, fileVars,
                      uploadVars, manageVars>>

\* loadDocumentList continued: an OK response carrying the server's folders
ListResponseOk ==
    /\ \E i \in 1..Len(listCalls) :
          /\ documentGrid' \in displayDocumentList(ResponseDocuments(listCalls[i]))
          /\ CallCompleted(i)
    /\ UNCHANGED <<excerptVars, tabVars, serverDocs, searchVars, fileVars,
                   uploadVars, manageVars>>

\* -----------------------------------------------------------------
\* Search form: building the request
\* -----------------------------------------------------------------
\* Characters the user can type into #max-documents and into #query
ValueChars == {"0", "3", "-", ".", "x"}

TypedValues == SeqsUpTo(ValueChars, MaxValueLen)
\* values of #query: empty, blank, a question, a question with blanks around it
Queries == {<<>>, <<" ", " ">>, <<"q">>, <<" ", "q", " ">>}

IsDigit(c) == c \in {"0", "3"}
DigitValue(c) == IF c = "3" THEN 3 ELSE 0

AllDigits(s) == \A i \in 1..Len(s) : IsDigit(s[i])

\* <input type="number">: a value that is not a valid floating-point number
\* (optional '-', digits and/or '.' with digits) is sanitized to ''
ValidFloat(s) ==
    LET body == IF Len(s) > 0 /\ s[1] = "-" THEN Tail(s) ELSE s
    IN \E k \in 0..Len(body) :
          LET int == SubSeq(body, 1, k)
              frac == SubSeq(body, k + 1, Len(body))
          IN /\ AllDigits(int)
             /\ \/ frac = <<>>
                \/ /\ Len(frac) > 1
                   /\ frac[1] = "."
                   /\ AllDigits(Tail(frac))
             /\ Len(int) + Len(frac) > 0

NumberInputValue(typed) == IF ValidFloat(typed) THEN typed ELSE <<>>

\* A JavaScript number as far as the request needs it: NaN or an integer
NaN == [nan |-> TRUE, val |-> 0]
Num(n) == [nan |-> FALSE, val |-> n]

RECURSIVE DigitsPrefix(_)
DigitsPrefix(s) ==
    IF s = <<>> \/ ~IsDigit(Head(s)) THEN <<>>
    ELSE <<Head(s)>> \o DigitsPrefix(Tail(s))

RECURSIVE DecimalValue(_)
DecimalValue(ds) ==
    IF ds = <<>> THEN 0
    ELSE 10 * DecimalValue(SubSeq(ds, 1, Len(ds) - 1)) + DigitValue(ds[Len(ds)])

\* parseInt(string): optional sign, then the longest prefix of decimal digits;
\* NaN when there is none
parseInt(s) ==
    LET neg == Len(s) > 0 /\ s[1] = "-"
        ds == DigitsPrefix(IF neg THEN Tail(s) ELSE s)
    IN IF ds = <<>> THEN NaN
       ELSE Num(IF neg THEN 0 - DecimalValue(ds) ELSE DecimalValue(ds))

RECURSIVE TrimStart(_)
TrimStart(s) == IF s # <<>> /\ Head(s) = " " THEN TrimStart(Tail(s)) ELSE s

RECURSIVE TrimEnd(_)
TrimEnd(s) ==
    IF s # <<>> /\ s[Len(s)] = " " THEN TrimEnd(SubSeq(s, 1, Len(s) - 1)) ELSE s

trim_NotApplied(s) == s

\* String.prototype.trim
trim(s) == TrimEnd(TrimStart(s))

DefaultMaxDocuments == 3
MinDocuments == 1
MaxDocuments == 10

\* front end A, requestData.max_documents: isNaN(maxDocuments) ? 3 : maxDocuments
MaxDocumentsA(value) ==
    IF parseInt(value).nan THEN Num(DefaultMaxDocuments) ELSE parseInt(value)

\* front end B, requestData.max_documents: parseInt(maxDocuments || 3)
MaxDocumentsB(value) ==
    IF value = <<>> THEN Num(DefaultMaxDocuments) ELSE parseInt(value)

\* front end B, the click handler calls performSearch(query, maxDocuments):
\* includeImages takes its default
IncludeImagesB == TRUE

NoRequest == [sent |-> FALSE]

\* The body of a request, with what the form held when it was triggered
RequestBody(q, maxDocs, images) ==
    [sent |-> TRUE, query |-> q, max_documents |-> maxDocs,
     include_images |-> images,
     valueAtClick |-> maxDocumentsValue, checkedAtClick |-> includeImagesChecked]

EnterQuestionText == "enter a question"
NoAnswerText == "no answer was generated"
SearchFailedText == "an error occurred while generating the answer"
SearchErrorText == "an error occurred while searching"

EmptyAnswer == [kind |-> "empty"]
EmptySources == [kind |-> "empty", docs |-> <<>>]

showError(message) == errorShown' = TRUE /\ errorText' = message

\* showLoading(true); hideError(); hideAnswerSection(); then fetch is awaited
SendSearch(body) ==
    /\ nextSearchId <= MaxSearches
    /\ loadingShown' = TRUE
    /\ errorShown' = FALSE
    /\ answerShown' = FALSE
    /\ lastRequest' = body
    /\ searchInFlight' = searchInFlight \cup {nextSearchId}
    /\ nextSearchId' = nextSearchId + 1
    /\ UNCHANGED <<errorText, mainAnswer, sourceDocuments, answerVars, outcomeVars>>

RejectEmptyQuery ==
    /\ showError(EnterQuestionText)
    /\ UNCHANGED <<requestVars, loadingShown, answerShown, mainAnswer,
                   sourceDocuments, answerVars, outcomeVars>>

\* front end A: performSearch, up to the await of fetch
PerformSearchA ==
    /\ frontend = "A"
    /\ LET query == trim(queryValue)
           maxDocuments == MaxDocumentsA(maxDocumentsValue)
           includeImages == includeImagesChecked
       IN IF query = <<>>
          THEN RejectEmptyQuery
          ELSE SendSearch(RequestBody(query, maxDocuments, includeImages))
    /\ UNCHANGED <<excerptVars, tabVars, formVars, listVars, fileVars, uploadVars,
                   manageVars>>

\* front end B: the search button's click handler and performSearch, up to
\* the await of fetch
SearchClickB ==
    /\ frontend = "B"
    /\ LET query == trim(queryValue)
       IN IF query = <<>>
          THEN RejectEmptyQuery
          ELSE SendSearch(RequestBody(query, MaxDocumentsB(maxDocumentsValue),
                                      IncludeImagesB))
    /\ UNCHANGED <<excerptVars, tabVars, formVars, listVars, fileVars, uploadVars,
                   manageVars>>

\* -----------------------------------------------------------------
\* Answer view
\* -----------------------------------------------------------------
SourceFolders == {"f1", "f2"}
Scores == 1..MaxScore

\* images of one source document (front end A): image k of a document's list
ImageLists == {[i \in 1..n |-> i] : n \in 0..MaxImages}

\* a null entry of doc.images
NullImage == 0

\* image lists in which some entries are null
ImageListsWithNull ==
    {[i \in 1..n |-> IF i \in nulls THEN NullImage ELSE i] :
        n \in 0..MaxImages, nulls \in SUBSET (1..MaxImages)}

\* img.image || img does not throw
IsImage(img) == img # NullImage

\* a source document as front end A reads it
SourceDocA == [folder_name : SourceFolders, score : Scores, images : ImageLists]

\* a source document as front end B reads it (images come in data.images)
SourceDocB == [folder_name : SourceFolders, score : Scores]

\* data.images of front end B: image k of the list, and the position in
\* source_documents of the document it was extracted from
TopImages(origins) == [i \in 1..Len(origins) |-> [src |-> i, origin |-> origins[i]]]

NoAnswerData == [answer |-> FALSE, source_documents |-> <<>>, images |-> <<>>]

\* data is an OK response body for front end A
AnswersA(data) ==
    \/ data = NoAnswerData
    \/ \E n \in 0..MaxSourceDocs : \E docs \in [1..n -> SourceDocA] :
           data = [answer |-> TRUE, source_documents |-> docs, images |-> <<>>]

\* data is an OK response body for front end B
AnswersB(data) ==
    \/ data = NoAnswerData
    \/ \E n \in 0..MaxSourceDocs : \E docs \in [1..n -> SourceDocB] :
           \E k \in 0..(IF n = 0 THEN 0 ELSE MaxImages) : \E origins \in [1..k -> 1..n] :
              data = [answer |-> TRUE, source_documents |-> docs,
                      images |-> TopImages(origins)]

ImageCap == 3

\* Array.prototype.slice(start, end), 0-based, end exclusive
slice(s, start, end) == SubSeq(s, start + 1, Min(end, Len(s)))

\* Math.ceil(a / b) for a >= 0, b > 0
ceilDiv(a, b) == (a + b - 1) \div b

createSourceDocumentElement_SliceFour(doc) ==
    [title |-> doc.folder_name,
     score |-> doc.score,
     images |-> SelectSeq(slice(doc.images, 0, ImageCap + 1), IsImage),
     moreImages |-> IF Len(doc.images) > ImageCap
                    THEN Len(doc.images) - ImageCap ELSE 0]

\* front end A: the element of one source document; moreImages is the count
\* the overflow indicator shows, 0 when there is no indicator. An entry
\* whose img.image throws is caught and gets no img element
createSourceDocumentElement(doc) ==
    [title |-> doc.folder_name,
     score |-> doc.score,
     images |-> SelectSeq(slice(doc.images, 0, ImageCap), IsImage),
     moreImages |-> IF Len(doc.images) > ImageCap
                    THEN Len(doc.images) - ImageCap ELSE 0]

RenderSourcesA_Reversed(docs) ==
    [i \in 1..Len(docs) |-> createSourceDocumentElement(docs[Len(docs) + 1 - i])]

\* front end A: data.source_documents.forEach(... appendChild ...)
RenderSourcesA(docs) ==
    [i \in 1..Len(docs) |-> createSourceDocumentElement(docs[i])]

\* front end B: the images handed to the document at 0-based position index
docImages(data, index) ==
    LET imagesPerDoc == ceilDiv(Len(data.images), Len(data.source_documents))
        startIdx == index * imagesPerDoc
        endIdx == Min(startIdx + imagesPerDoc, Len(data.images))
    IN slice(data.images, startIdx, endIdx)

\* front end B: data.source_documents.forEach((doc, index) => ...)
RenderSourcesB(data) ==
    [i \in 1..Len(data.source_documents) |->
        [title |-> data.source_documents[i].folder_name,
         score |-> data.source_documents[i].score,
         images |-> docImages(data, i - 1)]]

\* What the user sees of the error message and of the answer section
VisibleView ==
    [error |-> [shown |-> errorShown,
                text |-> IF errorShown THEN errorText ELSE ""],
     answer |-> [shown |-> answerShown,
                 main |-> IF answerShown THEN mainAnswer ELSE EmptyAnswer,
                 sources |-> IF answerShown THEN sourceDocuments ELSE EmptySources]]

\* no such outcome seen yet
NoView ==
    [seen |-> FALSE,
     view |-> [error |-> [shown |-> FALSE, text |-> ""],
               answer |-> [shown |-> FALSE, main |-> EmptyAnswer,
                           sources |-> EmptySources]]]

showAnswerSection == answerShown' = TRUE

\* front end A: displayAnswer(data)
displayAnswerA(data) ==
    IF ~data.answer
    THEN /\ showError(NoAnswerText)
         /\ UNCHANGED <<answerShown, mainAnswer, sourceDocuments, renderedFrom>>
    ELSE /\ mainAnswer' = [kind |-> "answer"]
         /\ sourceDocuments' =
               IF Len(data.source_documents) > 0
               THEN [kind |-> "docs", docs |-> RenderSourcesA(data.source_documents)]
               ELSE [kind |-> "no-results", docs |-> <<>>]
         /\ renderedFrom' = data
         /\ showAnswerSection
         /\ UNCHANGED <<errorShown, errorText>>

\* front end B: displayAnswer(data)
displayAnswerB(data) ==
    /\ IF data.answer
       THEN /\ mainAnswer' = [kind |-> "answer"]
            /\ sourceDocuments' =
                  IF Len(data.source_documents) > 0
                  THEN [kind |-> "docs", docs |-> RenderSourcesB(data)]
                  ELSE [kind |-> "no-results", docs |-> <<>>]
       ELSE /\ mainAnswer' = [kind |-> "no-results"]
            /\ sourceDocuments' = EmptySources
    /\ renderedFrom' = data
    /\ showAnswerSection
    /\ UNCHANGED <<errorShown, errorText>>

\* front end A: performSearch continued with an OK response; finally hides
\* the loading indicator
SearchResponseOkA ==
    /\ frontend = "A"
    /\ \E id \in searchInFlight :
          /\ searchInFlight' = searchInFlight \ {id}
          /\ shownSearch' = IF observeOutcomes THEN id ELSE shownSearch
    /\ displayAnswerA(serverAnswer)
    /\ loadingShown' = FALSE
    /\ noAnswerView' = IF observeOutcomes /\ ~serverAnswer.answer
                       THEN [seen |-> TRUE, view |-> VisibleView']
                       ELSE noAnswerView
    /\ UNCHANGED <<excerptVars, tabVars, formVars, listVars, nextSearchId,
                   lastRequest, serverAnswer, failureView, observeOutcomes, fileVars, uploadVars, manageVars>>

\* front end B: performSearch continued with an OK response (finally hides
\* the loading indicator), then the click handler calls displayAnswer(data)
SearchResponseOkB ==
    /\ frontend = "B"
    /\ \E id \in searchInFlight :
          /\ searchInFlight' = searchInFlight \ {id}
          /\ shownSearch' = IF observeOutcomes THEN id ELSE shownSearch
    /\ loadingShown' = FALSE
    /\ displayAnswerB(serverAnswer)
    /\ noAnswerView' = IF observeOutcomes /\ ~serverAnswer.answer
                       THEN [seen |-> TRUE, view |-> VisibleView']
                       ELSE noAnswerView
    /\ UNCHANGED <<excerptVars, tabVars, formVars, listVars, nextSearchId,
                   lastRequest, serverAnswer, failureView, observeOutcomes, fileVars, uploadVars, manageVars>>

\* -----------------------------------------------------------------
\* Search: failing requests, and the search flow as a whole
\* -----------------------------------------------------------------
\* error texts a non-OK response can carry in errorData.error ("": no text)
ServerErrorTexts == {"", "server: search backend failed"}

FetchRejectedText == "TypeError: Failed to fetch"
JsonParseText == "SyntaxError: Unexpected token"

\* The ways a search request fails:
\*   status  - non-OK response whose JSON body carries errorData.error = text
\*   badjson - response (OK or not) whose body is not JSON: response.json() throws
\*   network - fetch rejects
SearchFailures ==
    [kind : {"status"}, text : ServerErrorTexts]
        \cup [kind : {"badjson", "network"}, text : {""}]

\* error.message in the catch clause of performSearch
ThrownMessage(failure) ==
    CASE failure.kind = "status" ->
            IF failure.text # "" THEN failure.text ELSE SearchFailedText
      [] failure.kind = "badjson" -> JsonParseText
      [] failure.kind = "network" -> FetchRejectedText

\* front end A: performSearch continued, catch and finally
SearchResponseFailA ==
    /\ frontend = "A"
    /\ \E id \in searchInFlight :
          /\ searchInFlight' = searchInFlight \ {id}
          /\ shownSearch' = IF observeOutcomes THEN id ELSE shownSearch
    /\ \E failure \in SearchFailures :
          LET message == ThrownMessage(failure)
          IN showError(IF message # "" THEN message ELSE SearchErrorText)
    /\ loadingShown' = FALSE
    /\ UNCHANGED <<excerptVars, tabVars, formVars, listVars, nextSearchId,
                   lastRequest, answerVars, answerShown, mainAnswer, sourceDocuments, noAnswerView,
                   observeOutcomes, fileVars, uploadVars, manageVars>>
    /\ failureView' = IF observeOutcomes
                      THEN [seen |-> TRUE, view |-> VisibleView']
                      ELSE failureView

\* front end B: performSearch continued, catch and finally; it returns null
\* and the click handler shows nothing
SearchResponseFailB ==
    /\ frontend = "B"
    /\ \E id \in searchInFlight :
          /\ searchInFlight' = searchInFlight \ {id}
          /\ shownSearch' = IF observeOutcomes THEN id ELSE shownSearch
    /\ \E failure \in SearchFailures : showError(ThrownMessage(failure))
    /\ loadingShown' = FALSE
    /\ UNCHANGED <<excerptVars, tabVars, formVars, listVars, nextSearchId,
                   lastRequest, answerVars, answerShown, mainAnswer, sourceDocuments, noAnswerView,
                   observeOutcomes, fileVars, uploadVars, manageVars>>
    /\ failureView' = IF observeOutcomes
                      THEN [seen |-> TRUE, view |-> VisibleView']
                      ELSE failureView

\* the user edits #query
TypeQuery ==
    /\ \E q \in Queries : queryValue' = q
    /\ queryValue' # queryValue
    /\ UNCHANGED <<excerptVars, tabVars, frontend, maxDocumentsValue,
                   includeImagesChecked, requestVars, viewVars, answerVars, outcomeVars, listVars, fileVars,
                   uploadVars, manageVars>>

\* bodies the server answers with while the page is used
AnswersInUse ==
    IF frontend = "A"
    THEN {NoAnswerData,
          [answer |-> TRUE, source_documents |-> <<>>, images |-> <<>>],
          [answer |-> TRUE, images |-> <<>>, source_documents |->
              <<[folder_name |-> "f1", score |-> 1, images |-> <<1>>]>>]}
    ELSE {NoAnswerData,
          [answer |-> TRUE, source_documents |-> <<>>, images |-> <<>>],
          [answer |-> TRUE, images |-> <<[src |-> 1, origin |-> 1]>>,
           source_documents |-> <<[folder_name |-> "f1", score |-> 1]>>]}

\* the store behind the search API changes, and with it the answer
ServerAnswerChanges ==
    /\ serverAnswer' \in AnswersInUse
    /\ serverAnswer' # serverAnswer
    /\ UNCHANGED <<excerptVars, tabVars, formVars, requestVars, viewVars,
                   renderedFrom, outcomeVars, listVars, fileVars, uploadVars, manageVars>>

\* -----------------------------------------------------------------
\* Upload form
\* -----------------------------------------------------------------
\* A file name is a sequence of pieces: "." is the dot, every other piece
\* is a run of characters without a dot
NamePieces == {"a", ".", "pdf", "PPTX", "txt"}

\* the names a.pdf, a.PPTX, a.txt, a.pdf.txt, a, pdf, apdf
FileNames ==
    { <<"a", ".", "pdf">>, <<"a", ".", "PPTX">>, <<"a", ".", "txt">>,
      <<"a", ".", "pdf", ".", "txt">>, <<"a">>, <<"pdf">>, <<"a", "pdf">> }

NoFile == <<>>

\* String.prototype.toLowerCase on one piece
LowerPiece(p) == IF p = "PPTX" THEN "pptx" ELSE p

toLowerCase(s) == [i \in 1..Len(s) |-> LowerPiece(s[i])]

RECURSIVE LastSegment(_)
\* name.split('.').pop(): what follows the last dot, the whole name when
\* it has no dot
LastSegment(name) ==
    IF name = <<>> \/ name[Len(name)] = "." THEN <<>>
    ELSE LastSegment(SubSeq(name, 1, Len(name) - 1)) \o <<name[Len(name)]>>

AcceptedExtensions == {<<"pdf">>, <<"pptx">>}

\* ['pdf', 'pptx'].includes(fileExt)
ExtensionAccepted(name) == toLowerCase(LastSegment(name)) \in AcceptedExtensions

SelectFileText == "select a file"
OnlyPdfPptxText == "only PDF or PPTX files can be uploaded"

\* showErrorMessage(message): shows #error-message and starts a timer that
\* hides it after 5 seconds
showErrorMessage(message) ==
    /\ errorHideTimers < MaxTimers
    /\ showError(message)
    /\ errorHideTimers' = errorHideTimers + 1

\* the timer of showErrorMessage fires
ErrorHideTimer ==
    /\ errorHideTimers > 0
    /\ errorHideTimers' = errorHideTimers - 1
    /\ errorShown' = FALSE
    /\ UNCHANGED <<excerptVars, tabVars, listVars, formVars, requestVars,
                   answerVars, outcomeVars, loadingShown, errorText, answerShown, mainAnswer,
                   sourceDocuments, selectedFile, uploadVars, manageVars>>

\* the user picks a file in #document-file
SelectFile ==
    /\ \E name \in FileNames : selectedFile' = name
    /\ selectedFile' # selectedFile
    /\ UNCHANGED <<excerptVars, tabVars, listVars, searchVars, uploadVars,
                   errorHideTimers, manageVars>>

\* uploadDocument, up to the await of fetch; the submit button cannot be
\* used while it is disabled
UploadDocument_ButtonStaysEnabled ==
    /\ ~uploadBtnDisabled
    /\ IF selectedFile = NoFile
       THEN /\ showErrorMessage(SelectFileText)
            /\ UNCHANGED uploadVars
       ELSE IF ~ExtensionAccepted(selectedFile)
       THEN /\ showErrorMessage(OnlyPdfPptxText)
            /\ UNCHANGED uploadVars
       ELSE /\ uploadProgressShown' = TRUE
            /\ progressWidth' = 0
            /\ progressStatus' = "uploading"
            /\ uploadInFlight' = Append(uploadInFlight, selectedFile)
            /\ UNCHANGED <<progressErrorColor, uploadTimers, errorShown,
                           errorText, errorHideTimers, uploadBtnDisabled>>
    /\ UNCHANGED <<excerptVars, tabVars, listVars, formVars, requestVars,
                   answerVars, outcomeVars,
                   loadingShown, answerShown, mainAnswer, sourceDocuments,
                   selectedFile, manageVars>>

UploadDocument ==
    /\ ~uploadBtnDisabled
    /\ IF selectedFile = NoFile
       THEN /\ showErrorMessage(SelectFileText)
            /\ UNCHANGED uploadVars
       ELSE IF ~ExtensionAccepted(selectedFile)
       THEN /\ showErrorMessage(OnlyPdfPptxText)
            /\ UNCHANGED uploadVars
       ELSE /\ uploadProgressShown' = TRUE
            /\ uploadBtnDisabled' = TRUE
            /\ progressWidth' = 0
            /\ progressStatus' = "uploading"
            /\ uploadInFlight' = Append(uploadInFlight, selectedFile)
            /\ UNCHANGED <<progressErrorColor, uploadTimers, errorShown,
                           errorText, errorHideTimers>>
    /\ UNCHANGED <<excerptVars, tabVars, listVars, formVars, requestVars,
                   answerVars, outcomeVars, loadingShown, answerShown, mainAnswer, sourceDocuments,
                   selectedFile, manageVars>>

\* the folder the server creates for an uploaded file
NewFolder(docs) ==
    LET used == {docs[i].folder_name : i \in 1..Len(docs)}
        free == FolderNames \ used
    IN [folder_name |-> CHOOSE n \in free : \A k \in free : n <= k,
        created_at |-> MaxTime, document_type |-> "individual"]

\* the server stores the file of an upload request: a new folder, or an
\* existing one replaced
StoredDocs(docs) ==
    {docs} \cup (IF Len(docs) < MaxListDocs THEN {Append(docs, NewFolder(docs))} ELSE {})

\* uploadDocument continued with an OK response: the 2 second timer is set
UploadResponseOk ==
    /\ uploadInFlight # <<>>
    /\ uploadInFlight' = Tail(uploadInFlight)
    /\ serverDocs' \in StoredDocs(serverDocs)
    /\ progressWidth' = 100
    /\ progressStatus' = "done"
    /\ uploadTimers' = Append(uploadTimers, "success")
    /\ listCalls' \in StoreChanged(listCalls, serverDocs, serverDocs')
    /\ UNCHANGED <<excerptVars, tabVars, documentGrid, latestGrid, searchVars,
                   selectedFile, errorHideTimers, uploadBtnDisabled, uploadProgressShown,
                   progressErrorColor, manageVars>>

\* uploadDocument continued with a failure (non-OK response, rejected fetch,
\* body that is not JSON): the catch clause; the 3 second timer is set
UploadResponseFail ==
    /\ uploadInFlight # <<>>
    /\ uploadInFlight' = Tail(uploadInFlight)
    /\ progressStatus' = "error"
    /\ progressWidth' = 100
    /\ progressErrorColor' = TRUE
    /\ uploadTimers' = Append(uploadTimers, "failure")
    /\ UNCHANGED <<excerptVars, tabVars, listVars, searchVars, selectedFile,
                   errorHideTimers, uploadBtnDisabled, uploadProgressShown, manageVars>>

\* the timer set after a successful upload fires
UploadSuccessTimer ==
    /\ uploadTimers # <<>> /\ Head(uploadTimers) = "success"
    /\ uploadTimers' = Tail(uploadTimers)
    /\ uploadProgressShown' = FALSE
    /\ uploadBtnDisabled' = FALSE
    /\ selectedFile' = NoFile
    /\ listInFlight < MaxListLoads
    /\ documentGrid' = [kind |-> "loading", cards |-> <<>>]
    /\ listCalls' = IssueCall(listCalls)
    /\ UNCHANGED <<excerptVars, tabVars, serverDocs, latestGrid, searchVars,
                   errorHideTimers, uploadInFlight, progressWidth, progressStatus, progressErrorColor, manageVars>>

UploadFailureTimer_KeepsDisabled ==
    /\ uploadTimers # <<>> /\ Head(uploadTimers) = "failure"
    /\ uploadTimers' = Tail(uploadTimers)
    /\ uploadProgressShown' = FALSE
    /\ UNCHANGED <<excerptVars, tabVars, listVars, searchVars, selectedFile,
                   errorHideTimers,
                   uploadInFlight, progressWidth, progressStatus,
                   progressErrorColor, manageVars, uploadBtnDisabled>>

\* the timer set after a failed upload fires
UploadFailureTimer ==
    /\ uploadTimers # <<>> /\ Head(uploadTimers) = "failure"
    /\ uploadTimers' = Tail(uploadTimers)
    /\ uploadProgressShown' = FALSE
    /\ uploadBtnDisabled' = FALSE
    /\ UNCHANGED <<excerptVars, tabVars, listVars, searchVars, selectedFile,
                   errorHideTimers,
                   uploadInFlight, progressWidth, progressStatus,
                   progressErrorColor, manageVars>>

\* the upload form as the page delivers it
UploadPanelLoaded ==
    /\ errorHideTimers = 0
    /\ uploadBtnDisabled = FALSE
    /\ uploadProgressShown = FALSE
    /\ progressWidth = 0
    /\ progressStatus = "ready"
    /\ progressErrorColor = FALSE
    /\ uploadInFlight = <<>>
    /\ uploadTimers = <<>>

UploadFormLoaded ==
    /\ selectedFile = NoFile
    /\ UploadPanelLoaded

\* -----------------------------------------------------------------
\* Document detail
\* -----------------------------------------------------------------
\* the pages of a detail response; a folder without pages before any view
NoDetail == [pages |-> <<>>]

NoDocumentModal == [shown |-> FALSE, title |-> 0, pages |-> <<>>]

\* page.images: a list of images, or one whose first entry is null
DetailImageLists ==
    ImageLists \cup {[l EXCEPT ![1] = NullImage] : l \in ImageLists \ {<<>>}}

\* a page of the document data; page_number is 0 when the field is missing
DetailPage == [page_number : 0..MaxPages, images : DetailImageLists]

\* img.image throws a TypeError for a null entry of some page.images, and
\* showDocumentModal has no try around it
ImageThrows(data) ==
    \E i \in 1..Len(data.pages) : \E k \in 1..Len(data.pages[i].images) :
        ~IsImage(data.pages[i].images[k])

NullImageText == "TypeError: Cannot read properties of null"

pageElement_CappedImages(page, index) ==
    [label |-> IF page.page_number # 0 THEN page.page_number ELSE index,
     images |-> slice(page.images, 0, ImageCap)]

\* the element of one page: `페이지 ${page.page_number || (index + 1)}` and
\* one img per entry of page.images; index is the 1-based position
pageElement(page, index) ==
    [label |-> IF page.page_number # 0 THEN page.page_number ELSE index,
     images |-> page.images]

\* showDocumentModal(documentData), when nothing throws
showDocumentModal(data) ==
    [shown |-> TRUE,
     title |-> data.folder_name,
     pages |-> [i \in 1..Len(data.pages) |-> pageElement(data.pages[i], i)]]

\* -----------------------------------------------------------------
\* Confirmation modal, delete and consolidate
\* -----------------------------------------------------------------
\* What a confirmation is about: the operation and, for a delete, the folder
\* named in the message.  "none": the texts of the page as delivered / no
\* listener whose promise is still pending
NoConfirm == [op |-> "none", folder |-> 0]

\* the promises whose resolve the click listeners of the current #confirmYes
\* call are marked yes; MaxConfirms bounds the promises pending at once
MaxConfirms == 2

NewPromise(op, folder) == [op |-> op, folder |-> folder, yes |-> TRUE]

WithoutYesListeners(pending) ==
    [i \in 1..Len(pending) |-> [pending[i] EXCEPT !.yes = FALSE]]

showConfirmModal_NoClone(op, folder) ==
    /\ observeConfirms => Len(confirmPending) < MaxConfirms
    /\ confirmMessage' = [op |-> op, folder |-> folder]
    /\ confirmShown' = TRUE
    /\ confirmYes' = [op |-> op, folder |-> folder]
    /\ confirmPending' = IF observeConfirms
                         THEN Append(confirmPending, NewPromise(op, folder))
                         ELSE confirmPending
    /\ UNCHANGED observeConfirms

showConfirmModal_KeepsListener(op, folder) ==
    /\ observeConfirms => Len(confirmPending) < MaxConfirms
    /\ confirmMessage' = [op |-> op, folder |-> folder]
    /\ confirmShown' = TRUE
    /\ confirmYes' = IF confirmYes = NoConfirm
                     THEN [op |-> op, folder |-> folder] ELSE confirmYes
    /\ confirmPending' = IF observeConfirms
                         THEN Append(confirmPending, NewPromise(op, folder))
                         ELSE confirmPending
    /\ UNCHANGED observeConfirms

\* showConfirmModal(title, message): the texts are set, the modal is shown,
\* #confirmYes is replaced by a clone without listeners and gets the listener
\* that resolves this call's promise with true.  (The listener added to
\* #confirmNo resolves it with false; see ConfirmNoClick.)
showConfirmModal(op, folder) ==
    /\ observeConfirms => Len(confirmPending) < MaxConfirms
    /\ confirmMessage' = [op |-> op, folder |-> folder]
    /\ confirmShown' = TRUE
    /\ confirmYes' = [op |-> op, folder |-> folder]
    /\ confirmPending' = IF observeConfirms
                         THEN Append(WithoutYesListeners(confirmPending),
                                     NewPromise(op, folder))
                         ELSE confirmPending
    /\ UNCHANGED observeConfirms

\* deleteDocument(folderName), up to the await of showConfirmModal: the
\* delete button of a displayed card is clicked
DeleteDocument ==
    /\ documentGrid.kind = "cards"
    /\ \E i \in 1..Len(documentGrid.cards) :
          showConfirmModal("delete", documentGrid.cards[i].folder_name)
    /\ UNCHANGED <<excerptVars, tabVars, listVars, searchVars, fileVars,
                   uploadVars, deleteInFlight, deletedFolders, consolidateVars, alertText, detailVars>>

\* consolidateDocuments, up to the await of showConfirmModal
ConsolidateLabel == "consolidate documents"
ConsolidatingLabel == "consolidating..."

ConsolidateDocuments_NoConfirm ==
    /\ ~consolidateBtnDisabled
    /\ consolidateBtnDisabled' = TRUE
    /\ consolidateBtnLabel' = ConsolidatingLabel
    /\ consolidateInFlight' = consolidateInFlight + 1
    /\ UNCHANGED <<excerptVars, tabVars, listVars, searchVars, fileVars,
                   uploadVars, confirmVars, deleteInFlight, deletedFolders, alertText, detailVars>>

ConsolidateDocuments ==
    /\ ~consolidateBtnDisabled
    /\ showConfirmModal("consolidate", 0)
    /\ UNCHANGED <<excerptVars, tabVars, listVars, searchVars, fileVars,
                   uploadVars, deleteInFlight, deletedFolders, consolidateVars, alertText, detailVars>>


\* click on #confirmYes: the modal is hidden and the promise resolves with
\* true, so deleteDocument / consolidateDocuments continues up to its fetch
ConfirmYesClick ==
    /\ confirmShown
    /\ confirmShown' = FALSE
    /\ confirmYes' = NoConfirm
    /\ confirmPending' = SelectSeq(confirmPending, LAMBDA promise : ~promise.yes)
    /\ UNCHANGED observeConfirms
    /\ CASE confirmYes.op = "delete" ->
                /\ Len(deleteInFlight) < MaxDeletes
                /\ deleteInFlight' = Append(deleteInFlight, confirmYes.folder)
                /\ UNCHANGED consolidateVars
         [] confirmYes.op = "consolidate" ->
                /\ consolidateBtnDisabled' = TRUE
                /\ consolidateBtnLabel' = ConsolidatingLabel
                /\ consolidateInFlight' = consolidateInFlight + 1
                /\ UNCHANGED deleteInFlight
         [] OTHER -> UNCHANGED <<deleteInFlight, consolidateVars>>
    /\ UNCHANGED <<excerptVars, tabVars, listVars, searchVars, fileVars,
                   uploadVars, confirmMessage, deletedFolders, alertText, detailVars>>

\* click on #confirmNo: the modal is hidden and every pending promise
\* resolves with false (the listeners of all earlier calls are still on the
\* button), so each waiting deleteDocument / consolidateDocuments returns
ConfirmNoClick ==
    /\ confirmShown
    /\ confirmShown' = FALSE
    /\ confirmYes' = NoConfirm
    /\ confirmPending' = <<>>
    /\ UNCHANGED observeConfirms
    /\ UNCHANGED <<excerptVars, tabVars, listVars, searchVars, fileVars,
                   uploadVars, confirmMessage, deleteInFlight, deletedFolders, consolidateVars, alertText,
                   detailVars>>

\* click on .confirm-close or outside the dialog (initModals): the modal is
\* hidden, the promise stays pending
ConfirmDismiss ==
    /\ confirmShown
    /\ confirmShown' = FALSE
    /\ UNCHANGED <<excerptVars, tabVars, listVars, searchVars, fileVars,
                   uploadVars, confirmMessage, confirmYes, confirmPending, observeConfirms, deleteInFlight, deletedFolders, consolidateVars,
                   alertText, detailVars>>

\* ---- alerts and failing requests
NoAlert == [kind |-> "none", text |-> ""]

\* result.message of an OK response ("": no message)
ServerMessages == {"", "server: done"}

DeletedText == "the document was deleted"
ConsolidatedText == "consolidation finished"
DeleteFailedText == "an error occurred while deleting the document"
ConsolidateFailedText == "an error occurred while consolidating"
ViewFailedText == "an error occurred while fetching the document"
ListFailedText == "an error occurred while loading the list"

\* The ways a request fails (as SearchFailures): non-OK status with
\* errorData.error = text, body that is not JSON, rejected fetch
RequestFailures ==
    [kind : {"status"}, text : ServerErrorTexts]
        \cup [kind : {"badjson", "network"}, text : {""}]

\* error.message in a catch clause: errorData.error || statusDefault for a
\* non-OK response, the exception's own message otherwise
errorMessage(failure, statusDefault) ==
    CASE failure.kind = "status" ->
            IF failure.text # "" THEN failure.text ELSE statusDefault
      [] failure.kind = "badjson" -> JsonParseText
      [] failure.kind = "network" -> FetchRejectedText

\* loadDocumentList continued with a failure: the catch clause writes
\* error.message into the grid
ListResponseFail ==
    /\ \E i \in 1..Len(listCalls) : \E failure \in RequestFailures :
          /\ documentGrid' = [kind |-> "error", cards |-> <<>>,
                              text |-> errorMessage(failure, ListFailedText)]
          /\ CallCompleted(i)
    /\ UNCHANGED <<excerptVars, tabVars, serverDocs, searchVars, fileVars,
                   uploadVars, manageVars>>

\* alert(result.message || fallback); the message is kept in alertText
\* while the outcomes are being recorded
alertInfo(message, fallback) ==
    alertText' = IF observeOutcomes
                 THEN [kind |-> "info",
                       text |-> IF message # "" THEN message ELSE fallback]
                 ELSE alertText

\* alert(`오류: ${error.message || ...}`): error.message is never empty here
alertError(message) ==
    alertText' = IF observeOutcomes THEN [kind |-> "error", text |-> message]
                 ELSE alertText

\* the server's folders without folder f
WithoutFolder(docs, f) == SelectSeq(docs, LAMBDA d : d.folder_name # f)

HasFolder(docs, f) == \E i \in 1..Len(docs) : docs[i].folder_name = f

loadDocumentList_NotCalled ==
    /\ listCalls' \in StoreChanged(listCalls, serverDocs, serverDocs')
    /\ UNCHANGED <<documentGrid, latestGrid>>

\* loadDocumentList called from a continuation that has changed the store
loadDocumentList ==
    /\ listInFlight < MaxListLoads
    /\ documentGrid' = [kind |-> "loading", cards |-> <<>>]
    /\ \E calls \in StoreChanged(listCalls, serverDocs, serverDocs') :
          listCalls' = IssueCall(calls)
    /\ UNCHANGED latestGrid

\* deleteDocument continued with an OK response: alert, then the list is
\* reloaded.  The server has removed the folder
DeleteResponseOk ==
    /\ \E i \in 1..Len(deleteInFlight) :
          LET f == deleteInFlight[i]
          IN /\ HasFolder(serverDocs, f)
             /\ serverDocs' = WithoutFolder(serverDocs, f)
             /\ deletedFolders' = deletedFolders \cup {f}
             /\ deleteInFlight' = [j \in 1..(Len(deleteInFlight) - 1) |->
                                      deleteInFlight[IF j < i THEN j ELSE j + 1]]
    /\ \E message \in ServerMessages : alertInfo(message, DeletedText)
    /\ loadDocumentList
    /\ UNCHANGED <<excerptVars, tabVars, searchVars, fileVars, uploadVars, confirmVars,
                   consolidateVars, detailVars>>

\* deleteDocument continued with a failure: the catch clause.  A request
\* whose response was lost or unreadable may have been carried out
DeleteResponseFail ==
    /\ \E i \in 1..Len(deleteInFlight) : \E failure \in RequestFailures :
          LET f == deleteInFlight[i]
          IN /\ serverDocs' \in
                    IF failure.kind = "status" THEN {serverDocs}
                    ELSE {serverDocs, WithoutFolder(serverDocs, f)}
             /\ deleteInFlight' = [j \in 1..(Len(deleteInFlight) - 1) |->
                                      deleteInFlight[IF j < i THEN j ELSE j + 1]]
             /\ alertError(errorMessage(failure, DeleteFailedText))
    /\ listCalls' \in StoreChanged(listCalls, serverDocs, serverDocs')
    /\ UNCHANGED <<excerptVars, tabVars, documentGrid, latestGrid, searchVars,
                   fileVars, uploadVars, confirmVars, deletedFolders, consolidateVars, detailVars>>

\* the server's folders after a consolidation
Consolidated(docs) ==
    [i \in 1..Len(docs) |-> [docs[i] EXCEPT !.document_type = "consolidated"]]

\* consolidateDocuments continued with an OK response: alert, list reload,
\* and the finally clause
ConsolidateResponseOk ==
    /\ consolidateInFlight > 0
    /\ consolidateInFlight' = consolidateInFlight - 1
    /\ serverDocs' = Consolidated(serverDocs)
    /\ \E message \in ServerMessages : alertInfo(message, ConsolidatedText)
    /\ loadDocumentList
    /\ consolidateBtnDisabled' = FALSE
    /\ consolidateBtnLabel' = ConsolidateLabel
    /\ UNCHANGED <<excerptVars, tabVars, searchVars, fileVars, uploadVars, confirmVars,
                   deleteInFlight, deletedFolders, detailVars>>

\* consolidateDocuments continued with a failure: catch and finally
ConsolidateResponseFail_NoFinally ==
    /\ consolidateInFlight > 0
    /\ consolidateInFlight' = consolidateInFlight - 1
    /\ \E failure \in RequestFailures :
          /\ serverDocs' \in IF failure.kind = "status" THEN {serverDocs}
                             ELSE {serverDocs, Consolidated(serverDocs)}
          /\ alertError(errorMessage(failure, ConsolidateFailedText))
    /\ listCalls' \in StoreChanged(listCalls, serverDocs, serverDocs')
    /\ UNCHANGED <<excerptVars, tabVars, documentGrid, latestGrid, searchVars,
                   fileVars, uploadVars, confirmVars, deleteInFlight, deletedFolders, detailVars,
                   consolidateBtnDisabled, consolidateBtnLabel>>

ConsolidateResponseFail ==
    /\ consolidateInFlight > 0
    /\ consolidateInFlight' = consolidateInFlight - 1
    /\ \E failure \in RequestFailures :
          /\ serverDocs' \in IF failure.kind = "status" THEN {serverDocs}
                             ELSE {serverDocs, Consolidated(serverDocs)}
          /\ alertError(errorMessage(failure, ConsolidateFailedText))
    /\ consolidateBtnDisabled' = FALSE
    /\ consolidateBtnLabel' = ConsolidateLabel
    /\ listCalls' \in StoreChanged(listCalls, serverDocs, serverDocs')
    /\ UNCHANGED <<excerptVars, tabVars, documentGrid, latestGrid, searchVars,
                   fileVars, uploadVars, confirmVars, deleteInFlight, deletedFolders, detailVars>>

\* viewDocument(folderName), up to the await of fetch: the view button of a
\* displayed card is clicked
ViewDocument ==
    /\ documentGrid.kind = "cards"
    /\ Len(viewInFlight) < MaxViews
    /\ \E i \in 1..Len(documentGrid.cards) :
          viewInFlight' = Append(viewInFlight, documentGrid.cards[i].folder_name)
    /\ UNCHANGED <<excerptVars, tabVars, listVars, searchVars, fileVars,
                   uploadVars, confirmVars, deleteInFlight, deletedFolders, consolidateVars, alertText,
                   serverDetail, documentModal>>

\* viewDocument continued with an OK response: showDocumentModal; when it
\* throws, the title is set and the content emptied already, and the catch
\* clause alerts
ViewResponseOk ==
    /\ viewInFlight # <<>>
    /\ viewInFlight' = Tail(viewInFlight)
    /\ LET data == [folder_name |-> Head(viewInFlight), pages |-> serverDetail.pages]
       IN IF ImageThrows(data)
          THEN /\ documentModal' = [shown |-> documentModal.shown,
                                    title |-> data.folder_name, pages |-> <<>>]
               /\ alertError(NullImageText)
          ELSE /\ documentModal' = showDocumentModal(data)
               /\ UNCHANGED alertText
    /\ UNCHANGED <<excerptVars, tabVars, listVars, searchVars, fileVars,
                   uploadVars, confirmVars, deleteInFlight, deletedFolders, consolidateVars, serverDetail>>

\* viewDocument continued with a failure: the catch clause
ViewResponseFail ==
    /\ viewInFlight # <<>>
    /\ viewInFlight' = Tail(viewInFlight)
    /\ \E failure \in RequestFailures :
          alertError(errorMessage(failure, ViewFailedText))
    /\ UNCHANGED <<excerptVars, tabVars, listVars, searchVars, fileVars,
                   uploadVars, confirmVars, deleteInFlight, deletedFolders, consolidateVars, serverDetail,
                   documentModal>>

\* click on .document-close or outside the dialog (initModals)
CloseDocumentModal ==
    /\ documentModal.shown
    /\ documentModal' = [documentModal EXCEPT !.shown = FALSE]
    /\ UNCHANGED <<excerptVars, tabVars, listVars, searchVars, fileVars,
                   uploadVars, confirmVars, deleteInFlight, deletedFolders, consolidateVars, alertText,
                   viewInFlight, serverDetail>>

\* the modals, buttons and requests of the documents tab as the page
\* delivers them
ManageFormLoaded ==
    /\ confirmShown = FALSE
    /\ confirmMessage = NoConfirm
    /\ confirmYes = NoConfirm
    /\ confirmPending = <<>>
    /\ deleteInFlight = <<>>
    /\ deletedFolders = {}
    /\ consolidateInFlight = 0
    /\ consolidateBtnDisabled = FALSE
    /\ consolidateBtnLabel = ConsolidateLabel
    /\ alertText = NoAlert
    /\ viewInFlight = <<>>
    /\ documentModal = NoDocumentModal

ManageLoaded ==
    /\ ManageFormLoaded
    /\ serverDetail = NoDetail

\* the search form as the page delivers it (index.html): empty query, value
\* "3", checkbox checked, everything under the form hidden and empty
FormLoaded ==
    /\ queryValue = <<>>
    /\ maxDocumentsValue = <<"3">>
    /\ includeImagesChecked = TRUE

SearchViewLoaded ==
    /\ searchInFlight = {}
    /\ nextSearchId = 1
    /\ lastRequest = NoRequest
    /\ loadingShown = FALSE
    /\ errorShown = FALSE
    /\ errorText = ""
    /\ answerShown = FALSE
    /\ mainAnswer = EmptyAnswer
    /\ sourceDocuments = EmptySources
    /\ renderedFrom = NoAnswerData
    /\ noAnswerView = NoView
    /\ shownSearch = 0
    /\ failureView = NoView

\* initDocumentsUI: the grid holds the placeholder of the page and the first
\* loadDocumentList has been issued
InitList ==
    /\ serverDocs \in ListResponses
    /\ listCalls = PageLoadCalls
    /\ latestGrid = NoGrid
    /\ documentGrid = [kind |-> "loading", cards |-> <<>>]
    /\ FormLoaded
    /\ frontend \in {"A", "B"}
    /\ TabsLoaded
    /\ ExcerptIdle
    /\ SearchViewLoaded
    /\ UploadFormLoaded
    /\ ManageLoaded
    /\ observeOutcomes = FALSE /\ observeConfirms = FALSE
    /\ serverAnswer = NoAnswerData

NextList == LoadDocumentList \/ ListResponseOk \/ ListResponseFail

SpecList == InitList /\ [][NextList]_vars

\* C1: the displayed folders are ordered by created_at descending, and every
\* pair whose timestamps are absent (on either or both) or equal is ordered
\* by lexicographic folder_name.
C1_ListOrderedByDateThenName ==
    documentGrid.kind = "cards" =>
        \A i, j \in 1..Len(documentGrid.cards) : i < j =>
            LET a == documentGrid.cards[i]
                b == documentGrid.cards[j]
            IN IF a.created_at # 0 /\ b.created_at # 0 /\ a.created_at # b.created_at
               THEN a.created_at > b.created_at
               ELSE a.folder_name < b.folder_name

\* The form in any state the user can bring it to; no request sent yet
InitRequest ==
    /\ serverDocs = <<>>
    /\ listCalls = PageLoadCalls
    /\ latestGrid = NoGrid
    /\ documentGrid = [kind |-> "loading", cards |-> <<>>]
    /\ frontend \in {"A", "B"}
    /\ TabsLoaded
    /\ ExcerptIdle
    /\ SearchViewLoaded
    /\ UploadFormLoaded
    /\ ManageLoaded
    /\ observeOutcomes = FALSE /\ observeConfirms = FALSE
    /\ serverAnswer = NoAnswerData
    /\ \E typed \in TypedValues : maxDocumentsValue = NumberInputValue(typed)
    /\ queryValue \in Queries
    /\ includeImagesChecked \in BOOLEAN

NextRequest == PerformSearchA \/ SearchClickB

SpecRequest == InitRequest /\ [][NextRequest]_vars

\* C2: every search request carries a max_documents that is an integer in
\* 1..10, whatever the user typed into the max-documents input.
C2_MaxDocumentsInRange ==
    lastRequest.sent =>
        /\ ~lastRequest.max_documents.nan
        /\ lastRequest.max_documents.val \in MinDocuments..MaxDocuments

\* C3: when the max-documents value is empty or not a number the request
\* carries max_documents = 3, in both front ends, and max_documents is never
\* NaN (serialized as null).
C3_DefaultMaxDocuments ==
    lastRequest.sent =>
        /\ ~lastRequest.max_documents.nan
        /\ (lastRequest.valueAtClick = <<>> \/ ~ValidFloat(lastRequest.valueAtClick))
              => lastRequest.max_documents = Num(DefaultMaxDocuments)

\* C4: include_images of every search request equals the state of the
\* include-images checkbox at the moment the search was triggered.
C4_IncludeImagesIsCheckbox ==
    lastRequest.sent => lastRequest.include_images = lastRequest.checkedAtClick

\* A search has been sent and its response is awaited
AnswerPending ==
    /\ serverDocs = <<>>
    /\ listCalls = PageLoadCalls
    /\ latestGrid = NoGrid
    /\ documentGrid = [kind |-> "loading", cards |-> <<>>]
    /\ TabsLoaded
    /\ ExcerptIdle
    /\ queryValue = <<"q">>
    /\ maxDocumentsValue = <<"3">>
    /\ includeImagesChecked = TRUE
    /\ searchInFlight = {1}
    /\ nextSearchId = 2
    /\ lastRequest = [sent |-> TRUE, query |-> <<"q">>,
                      max_documents |-> Num(DefaultMaxDocuments),
                      include_images |-> TRUE,
                      valueAtClick |-> <<"3">>, checkedAtClick |-> TRUE]
    /\ loadingShown = TRUE
    /\ errorShown = FALSE
    /\ errorText = ""
    /\ answerShown = FALSE
    /\ mainAnswer = EmptyAnswer
    /\ sourceDocuments = EmptySources
    /\ renderedFrom = NoAnswerData
    /\ noAnswerView = NoView
    /\ shownSearch = 0
    /\ failureView = NoView
    /\ observeOutcomes = FALSE /\ observeConfirms = FALSE
    /\ UploadFormLoaded
    /\ ManageLoaded

\* The server answers the awaited search with any body of the front end's
\* response shape
InitRender ==
    /\ frontend \in {"A", "B"}
    /\ AnswerPending
    /\ IF frontend = "A" THEN AnswersA(serverAnswer) ELSE AnswersB(serverAnswer)

NextRender == SearchResponseOkA \/ SearchResponseOkB

SpecRender == InitRender /\ [][NextRender]_vars

\* the answer view shows the source documents of a response with an answer
SourcesRendered == answerShown /\ sourceDocuments.kind = "docs"

\* A response with one source document, whose image list may hold null
\* entries, is about to be shown by front end A
InitElement ==
    /\ frontend = "A"
    /\ AnswerPending
    /\ \E doc \in [folder_name : SourceFolders, score : Scores,
                   images : ImageListsWithNull] :
          serverAnswer = [answer |-> TRUE, source_documents |-> <<doc>>,
                          images |-> <<>>]

NextElement == SearchResponseOkA

SpecElement == InitElement /\ [][NextElement]_vars

\* C5: for every source document with n images (a list of n entries each
\* of which is an image), createSourceDocumentElement shows exactly
\* min(n, 3) images, and an overflow indicator with the count n - 3 exactly
\* when n > 3.
C5_ImagesCappedWithOverflow ==
    (frontend = "A" /\ SourcesRendered) =>
        /\ Len(sourceDocuments.docs) = Len(renderedFrom.source_documents)
        /\ \A i \in 1..Len(sourceDocuments.docs) :
              LET imgs == renderedFrom.source_documents[i].images
                  n == Len(imgs)
                  el == sourceDocuments.docs[i]
              IN (\A k \in 1..n : IsImage(imgs[k])) =>
                    /\ el.images = SubSeq(imgs, 1, Min(n, 3))
                    /\ (el.moreImages # 0) <=> (n > 3)
                    /\ n > 3 => el.moreImages = n - 3

C5_Witness ==
    /\ frontend = "A" /\ SourcesRendered
    /\ \E i \in 1..Len(sourceDocuments.docs) :
          /\ renderedFrom.source_documents[i].images = <<1, 2, 3, 4>>
          /\ sourceDocuments.docs[i].images = <<1, 2, 3>>
          /\ sourceDocuments.docs[i].moreImages = 1

\* C6: in the answer view front end B builds from a response with a
\* top-level images list, no source document is shown with more than 3 images.
C6_AtMostThreeImagesPerDocument ==
    (frontend = "B" /\ SourcesRendered) =>
        \A i \in 1..Len(sourceDocuments.docs) :
            Len(sourceDocuments.docs[i].images) <= 3

\* C7: every image shown under a source document of the answer view was
\* extracted from that document.
C7_ImagesShownUnderTheirDocument ==
    (frontend = "B" /\ SourcesRendered) =>
        \A i \in 1..Len(sourceDocuments.docs) :
            \A k \in 1..Len(sourceDocuments.docs[i].images) :
                sourceDocuments.docs[i].images[k].origin = i

NonIncreasing(scores) ==
    \A i, j \in 1..Len(scores) : i < j => scores[i] >= scores[j]

\* C10: displayAnswer shows the source documents of a response in exactly
\* the number and order received, so a response of at most k documents in
\* non-increasing score order is shown as at most k documents in
\* non-increasing score order.
C10_SourcesInReceivedOrder ==
    SourcesRendered =>
        LET received == renderedFrom.source_documents
            shown == sourceDocuments.docs
        IN /\ Len(shown) = Len(received)
           /\ \A i \in 1..Len(shown) :
                 /\ shown[i].title = received[i].folder_name
                 /\ shown[i].score = received[i].score
           /\ NonIncreasing([i \in 1..Len(received) |-> received[i].score])
                 => NonIncreasing([i \in 1..Len(shown) |-> shown[i].score])

C10_Witness ==
    /\ SourcesRendered
    /\ Len(sourceDocuments.docs) = 2
    /\ sourceDocuments.docs[1].title = "f2"
    /\ sourceDocuments.docs[2].title = "f1"
    /\ sourceDocuments.docs[1].score > sourceDocuments.docs[2].score
    /\ renderedFrom.source_documents[1].folder_name = "f2"
    /\ renderedFrom.source_documents[1].score > renderedFrom.source_documents[2].score

PageLoaded ==
    /\ serverDocs = <<>>
    /\ listCalls = PageLoadCalls
    /\ latestGrid = NoGrid
    /\ documentGrid = [kind |-> "loading", cards |-> <<>>]
    /\ FormLoaded
    /\ frontend \in {"A", "B"}
    /\ TabsLoaded
    /\ ExcerptIdle
    /\ SearchViewLoaded
    /\ UploadFormLoaded
    /\ ManageLoaded
    /\ serverAnswer = NoAnswerData

Init == PageLoaded /\ observeOutcomes = FALSE /\ observeConfirms = FALSE

Next ==
    \/ TypeQuery
    \/ ServerAnswerChanges
    \/ PerformSearchA
    \/ SearchClickB
    \/ SearchResponseOkA
    \/ SearchResponseOkB
    \/ SearchResponseFailA
    \/ SearchResponseFailB

Spec == Init /\ [][Next]_vars

\* the same page, with the views the outcomes leave being recorded
InitOutcome == PageLoaded /\ observeOutcomes = TRUE /\ observeConfirms = FALSE

SpecOutcome == InitOutcome /\ [][Next]_vars

\* C8: a response with no answer and a failed search request never leave
\* the same visible state of the error message and the answer section.
C8_NoAnswerDistinctFromFailure ==
    (noAnswerView.seen /\ failureView.seen) => noAnswerView.view # failureView.view

\* The documents tab of a page whose store is empty
InitUpload ==
    /\ serverDocs = <<>>
    /\ listCalls = PageLoadCalls
    /\ latestGrid = NoGrid
    /\ documentGrid = [kind |-> "loading", cards |-> <<>>]
    /\ FormLoaded
    /\ frontend = "A"
    /\ TabsLoaded
    /\ ExcerptIdle
    /\ SearchViewLoaded
    /\ UploadFormLoaded
    /\ ManageLoaded
    /\ serverAnswer = NoAnswerData
    /\ observeOutcomes = FALSE /\ observeConfirms = FALSE

NextUpload ==
    \/ SelectFile
    \/ UploadDocument
    \/ UploadResponseOk
    \/ UploadResponseFail
    \/ UploadSuccessTimer
    \/ UploadFailureTimer
    \/ ErrorHideTimer
    \/ ListResponseOk
    \/ ListResponseFail

SpecUpload == InitUpload /\ [][NextUpload]_vars

\* The upload form alone, on a page whose (empty) list has been displayed:
\* submissions, their responses and their timers; the list requests the
\* successful uploads start stay unanswered
InitSubmit ==
    /\ serverDocs = <<>>
    /\ listCalls = <<>>
    /\ latestGrid = NoGrid
    /\ documentGrid \in displayDocumentList(<<>>)
    /\ FormLoaded
    /\ frontend = "A"
    /\ TabsLoaded
    /\ ExcerptIdle
    /\ SearchViewLoaded
    /\ UploadFormLoaded
    /\ ManageLoaded
    /\ serverAnswer = NoAnswerData
    /\ observeOutcomes = FALSE
    /\ observeConfirms = FALSE

NextSubmit ==
    \/ SelectFile
    \/ UploadDocument
    \/ UploadResponseOk
    \/ UploadResponseFail
    \/ UploadSuccessTimer
    \/ UploadFailureTimer
    \/ ErrorHideTimer

SpecSubmit == InitSubmit /\ [][NextSubmit]_vars

\* the name ends in ".pdf" or ".pptx", compared without regard to case
EndsInPdfOrPptx(name) ==
    /\ Len(name) >= 2
    /\ name[Len(name) - 1] = "."
    /\ LowerPiece(name[Len(name)]) \in {"pdf", "pptx"}

\* C9: uploadDocument with a file whose name does not end in a .pdf or
\* .pptx extension (case-insensitively; names without an extension included)
\* sends no upload request, reports an error, creates no folder and does not
\* reload the list.
C9_UnsupportedFileNotUploaded ==
    [][(UploadDocument /\ selectedFile # NoFile /\ ~EndsInPdfOrPptx(selectedFile))
          => /\ uploadInFlight' = uploadInFlight
             /\ errorShown' /\ errorText' = OnlyPdfPptxText
             /\ serverDocs' = serverDocs
             /\ listInFlight' = listInFlight]_vars

\* -----------------------------------------------------------------
\* Documents tab: list, delete and consolidate
\* -----------------------------------------------------------------
\* a store of MaxManaged folders of individual pages
ManagedStore ==
    [i \in 1..MaxManaged |->
        [folder_name |-> i, created_at |-> Min(i, MaxTime),
         document_type |-> "individual"]]

ManagePageLoaded ==
    /\ serverDocs = ManagedStore
    /\ listCalls = PageLoadCalls
    /\ latestGrid = NoGrid
    /\ documentGrid = [kind |-> "loading", cards |-> <<>>]
    /\ FormLoaded
    /\ frontend = "A"
    /\ TabsLoaded
    /\ ExcerptIdle
    /\ SearchViewLoaded
    /\ UploadFormLoaded
    /\ ManageLoaded
    /\ serverAnswer = NoAnswerData

InitManage == ManagePageLoaded /\ observeOutcomes = FALSE /\ observeConfirms = FALSE

NextManage ==
    \/ LoadDocumentList
    \/ ListResponseOk
    \/ ListResponseFail
    \/ DeleteDocument
    \/ ConsolidateDocuments
    \/ ConfirmYesClick
    \/ ConfirmNoClick
    \/ ConfirmDismiss
    \/ DeleteResponseOk
    \/ DeleteResponseFail
    \/ ConsolidateResponseOk
    \/ ConsolidateResponseFail

SpecManage == InitManage /\ [][NextManage]_vars

\* The documents tab once the list is displayed: confirmations, deletions
\* and consolidations with the reloads they start
\* two folders: the one a confirmation names, and another one
ConfirmStore == SubSeq(ManagedStore, 1, 2)

InitConfirm ==
    /\ serverDocs = ConfirmStore
    /\ listCalls = <<>>
    /\ latestGrid = NoGrid
    /\ documentGrid \in displayDocumentList(ConfirmStore)
    /\ FormLoaded
    /\ frontend = "A"
    /\ TabsLoaded
    /\ ExcerptIdle
    /\ SearchViewLoaded
    /\ UploadFormLoaded
    /\ ManageLoaded
    /\ serverAnswer = NoAnswerData
    /\ observeOutcomes = FALSE /\ observeConfirms = FALSE

NextConfirm ==
    \/ ListResponseOk
    \/ DeleteDocument
    \/ ConsolidateDocuments
    \/ ConfirmYesClick
    \/ ConfirmNoClick
    \/ ConfirmDismiss
    \/ DeleteResponseOk
    \/ DeleteResponseFail
    \/ ConsolidateResponseOk
    \/ ConsolidateResponseFail

SpecConfirm == InitConfirm /\ [][NextConfirm]_vars

\* The same page with the promises of showConfirmModal recorded
InitPromises ==
    /\ serverDocs = ConfirmStore
    /\ listCalls = <<>>
    /\ latestGrid = NoGrid
    /\ documentGrid \in displayDocumentList(ConfirmStore)
    /\ FormLoaded
    /\ frontend = "A"
    /\ TabsLoaded
    /\ ExcerptIdle
    /\ SearchViewLoaded
    /\ UploadFormLoaded
    /\ ManageLoaded
    /\ serverAnswer = NoAnswerData
    /\ observeOutcomes = FALSE
    /\ observeConfirms = TRUE

NextPromises ==
    \/ DeleteDocument
    \/ ConsolidateDocuments
    \/ ConfirmYesClick
    \/ ConfirmNoClick
    \/ ConfirmDismiss
    \/ DeleteResponseOk
    \/ ConsolidateResponseOk
    \/ ListResponseOk

SpecPromises == InitPromises /\ [][NextPromises]_vars

\* C22: whatever calls of showConfirmModal came before, a click on Yes
\* resolves with true the promise of the most recent call and no other: the
\* Yes listeners of the earlier calls went with the button they were on
C22_YesResolvesOnlyLatest ==
    [][ConfirmYesClick
          => /\ confirmPending # <<>>
             /\ confirmPending' = SubSeq(confirmPending, 1, Len(confirmPending) - 1)
             /\ confirmPending[Len(confirmPending)].op = confirmMessage.op
             /\ confirmPending[Len(confirmPending)].folder = confirmMessage.folder
             /\ \A i \in 1..(Len(confirmPending) - 1) : ~confirmPending[i].yes]_vars

C22_Witness ==
    /\ Len(confirmPending) = 1
    /\ ~confirmPending[1].yes
    /\ confirmPending[1].op = "consolidate"
    /\ ~confirmShown
    /\ confirmYes = NoConfirm
    /\ confirmMessage.op = "delete"
    /\ Len(deleteInFlight) = 1
    /\ consolidateInFlight = 0

\* The responses of the server arrive; nothing obliges the user to click
SpecPromisesFair ==
    /\ InitPromises
    /\ [][NextPromises]_vars
    /\ WF_vars(DeleteResponseOk)
    /\ WF_vars(ConsolidateResponseOk)
    /\ WF_vars(ListResponseOk)

\* C23: a promise of showConfirmModal whose modal has been dismissed, in
\* whichever way, is eventually resolved.  (The oldest pending promise is
\* resolved exactly when no promise is left pending: No resolves all of
\* them, Yes the most recent one.)
C23_DismissedPromiseResolved ==
    (confirmPending # <<>> /\ ~confirmShown) ~> (confirmPending = <<>>)



\* C11: deletion does not race with consolidation: no DELETE request is in
\* flight (just issued or awaiting its response) while a consolidation
\* request is in flight.
C11_NoDeleteDuringConsolidation ==
    ~(deleteInFlight # <<>> /\ consolidateInFlight > 0)

\* the documents tab, with the alerts being recorded
InitAlerts == ManagePageLoaded /\ observeOutcomes = TRUE /\ observeConfirms = FALSE

SpecAlerts == InitAlerts /\ [][NextManage]_vars

\* texts of internal exceptions
InternalTexts == {FetchRejectedText, JsonParseText}

\* C12: the message shown for a failing request (in an alert, in the
\* document grid, in the error element of the search view) is the server's
\* error text or the operation's default message, never the text of an
\* internal exception.
C12_NoInternalErrorTextShown ==
    /\ alertText.kind = "error" => alertText.text \notin InternalTexts
    /\ documentGrid.kind = "error" => documentGrid.text \notin InternalTexts
    /\ errorShown => errorText \notin InternalTexts

\* C13: a DELETE request for folder F is sent only by a click on Yes while
\* the displayed confirmation names F, whatever confirmations were opened
\* and dismissed before; a click on No (or a dismissal) sends nothing.
C13_DeleteOnlyAfterYes ==
    [][/\ deleteInFlight' # deleteInFlight /\ Len(deleteInFlight') > Len(deleteInFlight)
          => /\ ConfirmYesClick
             /\ confirmShown
             /\ confirmMessage.op = "delete"
             /\ deleteInFlight' = Append(deleteInFlight, confirmMessage.folder)
       /\ (ConfirmNoClick \/ ConfirmDismiss)
          => /\ deleteInFlight' = deleteInFlight
             /\ consolidateInFlight' = consolidateInFlight
             /\ serverDocs' = serverDocs]_vars

C13_Witness ==
    /\ deleteInFlight = <<1>>
    /\ ~confirmShown
    /\ confirmMessage = [op |-> "delete", folder |-> 1]
    /\ deletedFolders = {2}

\* C14: when a DELETE request succeeds the list is reloaded from the server,
\* and when the load issued last completes it shows no deleted folder (the
\* reload, or a load issued after it); when a DELETE request fails the
\* displayed list is left as it is.
C14_ListReloadedAfterDelete ==
    [][/\ deletedFolders' # deletedFolders
          => /\ listInFlight' = listInFlight + 1
             /\ documentGrid'.kind = "loading"
             /\ LatestInFlight'
       /\ (listInFlight' < listInFlight /\ LatestInFlight /\ ~LatestInFlight')
          => \A i \in 1..Len(documentGrid'.cards) :
                documentGrid'.cards[i].folder_name \notin deletedFolders'
       /\ (Len(deleteInFlight') < Len(deleteInFlight) /\ deletedFolders' = deletedFolders)
          => /\ documentGrid' = documentGrid
             /\ listInFlight' = listInFlight]_vars

C14_Witness ==
    /\ deletedFolders = {2}
    /\ listInFlight = 0
    /\ documentGrid.kind = "cards"
    /\ Len(documentGrid.cards) = 1
    /\ documentGrid.cards[1].folder_name = 1

\* C17: a consolidation request is sent only by a Yes click on a displayed
\* confirmation of the consolidation; a No click or a dismissal of that
\* confirmation sends no request, leaves the consolidate button's state and
\* label as they were and does not reload the list.
C17_ConsolidateOnlyAfterYes ==
    [][/\ consolidateInFlight' > consolidateInFlight
          => /\ ConfirmYesClick
             /\ confirmShown
             /\ confirmMessage.op = "consolidate"
             /\ consolidateInFlight' = consolidateInFlight + 1
       /\ ((ConfirmNoClick \/ ConfirmDismiss) /\ confirmMessage.op = "consolidate")
          => /\ consolidateInFlight' = consolidateInFlight
             /\ consolidateBtnDisabled' = consolidateBtnDisabled
             /\ consolidateBtnLabel' = consolidateBtnLabel
             /\ listInFlight' = listInFlight
             /\ documentGrid' = documentGrid
             /\ serverDocs' = serverDocs]_vars

C17_Witness ==
    /\ consolidateInFlight = 1
    /\ ~confirmShown
    /\ confirmMessage.op = "consolidate"
    /\ consolidateBtnLabel = ConsolidatingLabel

\* C18: while a consolidation request is in flight the consolidate button
\* is disabled; when the request ends, with success or with any failure,
\* the button is enabled and carries its original label; the list is
\* reloaded after a success and not after a failure.
C18_ConsolidateButtonRestored ==
    [][/\ consolidateInFlight > 0 => consolidateBtnDisabled
       /\ consolidateInFlight' > 0 => consolidateBtnDisabled'
       /\ consolidateInFlight' < consolidateInFlight
          => /\ ~consolidateBtnDisabled'
             /\ consolidateBtnLabel' = ConsolidateLabel
       /\ ConsolidateResponseOk
          => /\ listInFlight' = listInFlight + 1
             /\ documentGrid'.kind = "loading"
       /\ (consolidateInFlight' < consolidateInFlight /\ ~ConsolidateResponseOk)
          => /\ listInFlight' = listInFlight
             /\ documentGrid' = documentGrid]_vars

C18_Witness ==
    /\ consolidateInFlight = 0
    /\ ~consolidateBtnDisabled
    /\ consolidateBtnLabel = ConsolidateLabel
    /\ confirmMessage.op = "consolidate"
    /\ ~confirmShown
    /\ confirmYes = NoConfirm
    /\ documentGrid.kind = "cards"
    /\ listInFlight = 0
    /\ serverDocs # ManagedStore

\* C19: the upload button is disabled in every state in which an upload
\* request is in flight, and at most one upload request is in flight.
C19_OneUploadInFlight ==
    /\ Len(uploadInFlight) <= 1
    /\ uploadInFlight # <<>> => uploadBtnDisabled

C19_Witness ==
    /\ uploadInFlight # <<>>
    /\ uploadBtnDisabled
    /\ progressErrorColor
    /\ uploadTimers = <<>>

\* The upload form with a file chosen that passes the validation
InitUploadFair ==
    /\ serverDocs = <<>>
    /\ listCalls = PageLoadCalls
    /\ latestGrid = NoGrid
    /\ documentGrid = [kind |-> "loading", cards |-> <<>>]
    /\ FormLoaded
    /\ frontend = "A"
    /\ TabsLoaded
    /\ ExcerptIdle
    /\ SearchViewLoaded
    /\ selectedFile \in {name \in FileNames : ExtensionAccepted(name)}
    /\ UploadPanelLoaded
    /\ ManageLoaded
    /\ serverAnswer = NoAnswerData
    /\ observeOutcomes = FALSE /\ observeConfirms = FALSE

NextUploadFair ==
    \/ UploadDocument
    \/ UploadResponseOk
    \/ UploadResponseFail
    \/ UploadSuccessTimer
    \/ UploadFailureTimer
    \/ ListResponseOk
    \/ ListResponseFail

\* Every request is answered or fails, and every timer set fires
SpecUploadFair ==
    /\ InitUploadFair
    /\ [][NextUploadFair]_vars
    /\ WF_vars(UploadResponseOk \/ UploadResponseFail)
    /\ WF_vars(UploadSuccessTimer)
    /\ WF_vars(UploadFailureTimer)
    /\ WF_vars(ListResponseOk \/ ListResponseFail)

\* C20: an upload request in flight leads to the upload button enabled and
\* the progress panel hidden, whether the request succeeds or fails; the
\* step that ends a successful upload clears the file input and issues a
\* list reload, and no step of a failed upload issues one.
C20_UploadEventuallyEnds ==
    /\ (uploadInFlight # <<>>) ~> (~uploadBtnDisabled /\ ~uploadProgressShown)
    /\ [][/\ UploadSuccessTimer
             => /\ ~uploadBtnDisabled' /\ ~uploadProgressShown'
                /\ selectedFile' = NoFile
                /\ listInFlight' = listInFlight + 1
                /\ documentGrid'.kind = "loading"
          /\ (UploadResponseFail \/ UploadFailureTimer)
             => /\ listInFlight' = listInFlight
                /\ documentGrid' = documentGrid
          /\ UploadFailureTimer
             => ~uploadBtnDisabled' /\ ~uploadProgressShown']_vars

C20_Witness ==
    /\ ~uploadBtnDisabled
    /\ ~uploadProgressShown
    /\ progressStatus = "done"
    /\ progressErrorColor
    /\ selectedFile = NoFile
    /\ uploadTimers = <<>>
    /\ uploadInFlight = <<>>

\* ---------------------------------------------------------------------
\* The detail modal: a folder is listed, the store holds any pages for it
\* ---------------------------------------------------------------------

DetailStore == SubSeq(ManagedStore, 1, 1)

InitDetail ==
    /\ serverDocs = DetailStore
    /\ listCalls = <<>>
    /\ latestGrid = NoGrid
    /\ documentGrid = [kind |-> "cards",
                       cards |-> [i \in 1..Len(DetailStore) |->
                                    createDocumentCard(DetailStore[i])]]
    /\ FormLoaded
    /\ frontend = "A"
    /\ TabsLoaded
    /\ ExcerptIdle
    /\ SearchViewLoaded
    /\ UploadFormLoaded
    /\ ManageFormLoaded
    /\ \E n \in 0..MaxPages : \E pages \in [1..n -> DetailPage] :
          serverDetail = [pages |-> pages]
    /\ serverAnswer = NoAnswerData
    /\ observeOutcomes = FALSE /\ observeConfirms = FALSE

NextDetail ==
    \/ ViewDocument
    \/ ViewResponseOk
    \/ ViewResponseFail
    \/ CloseDocumentModal

SpecDetail == InitDetail /\ [][NextDetail]_vars

AllImages(data) == ~ImageThrows(data)

\* C15: the detail modal shows the pages of the fetched document in the
\* order of the response, each with all of its images in order, however
\* many, and labelled with its page_number, or with its 1-based position
\* when page_number is missing.
C15_DetailShowsEveryPageAndImage ==
    [][(ViewResponseOk /\ AllImages(serverDetail))
         => /\ documentModal'.shown
            /\ Len(documentModal'.pages) = Len(serverDetail.pages)
            /\ \A i \in 1..Len(serverDetail.pages) :
                  /\ documentModal'.pages[i].images = serverDetail.pages[i].images
                  /\ documentModal'.pages[i].label =
                        IF serverDetail.pages[i].page_number # 0
                        THEN serverDetail.pages[i].page_number
                        ELSE i]_vars

C15_Witness ==
    /\ documentModal.shown
    /\ Len(documentModal.pages) = 2
    /\ documentModal.pages[1].label = 2
    /\ Len(documentModal.pages[1].images) = MaxImages
    /\ serverDetail.pages[2].page_number = 0
    /\ documentModal.pages[2].label = 2

\* ---------------------------------------------------------------------
\* The cards of a list response, for every typing of its folders
\* ---------------------------------------------------------------------

InitCards ==
    /\ \E n \in 0..MaxListDocs :
          \E names \in {f \in [1..n -> FolderNames] : Injective(f)} :
             \E types \in [1..n -> DocumentTypes] :
                serverDocs = [i \in 1..n |->
                                [folder_name |-> names[i],
                                 created_at |-> Min(names[i], MaxTime),
                                 document_type |-> types[i]]]
    /\ listCalls = PageLoadCalls
    /\ latestGrid = NoGrid
    /\ documentGrid = [kind |-> "loading", cards |-> <<>>]
    /\ FormLoaded
    /\ frontend = "A"
    /\ TabsLoaded
    /\ ExcerptIdle
    /\ SearchViewLoaded
    /\ UploadFormLoaded
    /\ ManageLoaded
    /\ observeOutcomes = FALSE /\ observeConfirms = FALSE
    /\ serverAnswer = NoAnswerData

NextCards == LoadDocumentList \/ ListResponseOk

SpecCards == InitCards /\ [][NextCards]_vars

\* C16: a displayed list has exactly one card for each folder of the
\* response, and a card is labelled as a consolidated document exactly when
\* the folder's document_type is 'consolidated', as individual pages
\* otherwise.
C16_OneCardPerFolderWithType ==
    documentGrid.kind = "cards" =>
        /\ Len(documentGrid.cards) = Len(serverDocs)
        /\ \A d \in 1..Len(serverDocs) :
              \E i \in 1..Len(documentGrid.cards) :
                 /\ documentGrid.cards[i].folder_name = serverDocs[d].folder_name
                 /\ \A j \in 1..Len(documentGrid.cards) :
                       documentGrid.cards[j].folder_name = serverDocs[d].folder_name
                          => j = i
                 /\ documentGrid.cards[i].typeText =
                       IF serverDocs[d].document_type = "consolidated"
                       THEN "consolidated document" ELSE "individual pages"

C16_Witness ==
    /\ documentGrid.kind = "cards"
    /\ Len(documentGrid.cards) = 3
    /\ \E i, j, k \in 1..3 :
          /\ serverDocs[i].document_type = "consolidated"
          /\ serverDocs[j].document_type = "individual"
          /\ serverDocs[k].document_type = ""
    /\ \E i, j \in 1..3 :
          /\ documentGrid.cards[i].typeText = "consolidated document"
          /\ documentGrid.cards[j].typeText = "individual pages"

\* ---------------------------------------------------------------------
\* The tabs, with the list loads that they and the refresh button start,
\* and the detail modal of the documents tab
\* ---------------------------------------------------------------------

NextTabs ==
    \/ TabClick
    \/ LoadDocumentList
    \/ ListResponseOk
    \/ ListResponseFail
    \/ ViewDocument
    \/ ViewResponseOk
    \/ ViewResponseFail
    \/ CloseDocumentModal

SpecTabs == InitManage /\ [][NextTabs]_vars

\* C21: exactly one tab button and exactly one tab content are active, and
\* the active content is the one whose id is the active button's data-tab
\* followed by '-tab'.
C21_OneActiveTab ==
    /\ Cardinality(activeTabBtns) = 1
    /\ Cardinality(activeTabContents) = 1
    /\ \A btn \in activeTabBtns : activeTabContents = {TabContentId(btn)}

C21_Witness ==
    /\ activeTabBtns = {<<"search">>}
    /\ activeTabContents = {<<"search", "-tab">>}
    /\ Len(listCalls) = 2
    /\ documentGrid.kind = "loading"

\* Overlapping list loads: the page load, the documents tab, the refresh
\* button and the reload after a deletion, with the grid drawn for the call
\* issued last being recorded
NextOverlap ==
    \/ TabClick
    \/ LoadDocumentList
    \/ ListResponseOk
    \/ DeleteDocument
    \/ ConfirmYesClick
    \/ DeleteResponseOk

SpecOverlap == InitAlerts /\ [][NextOverlap]_vars

\* C24: once every loadDocumentList call has completed, the grid shows the
\* response of the call issued last, in whatever order the responses arrived.
C24_GridShowsLatestCall ==
    (listCalls = <<>> /\ latestGrid # NoGrid) => documentGrid = latestGrid

\* C25: the loading indicator is visible exactly while at least one search
\* request is in flight, overlapping requests included.
C25_LoadingWhileInFlight ==
    loadingShown <=> (searchInFlight # {})

\* C26: once every search has completed, what the view shows was written
\* by the response to the query submitted last.
C26_ViewShowsLatestQuery ==
    (observeOutcomes /\ searchInFlight = {} /\ nextSearchId > 1)
        => shownSearch = nextSearchId - 1

\* C27: the error message and the answer section are never visible at the
\* same time.
C27_ErrorAndAnswerExclusive ==
    ~(errorShown /\ answerShown)

\* C28: a search triggered with an empty or whitespace-only query sends no
\* request, shows the 'enter a question' error and does not show the
\* loading indicator.
C28_EmptyQueryRejected ==
    [][((PerformSearchA \/ SearchClickB)
           /\ \A i \in 1..Len(queryValue) : queryValue[i] = " ")
          => /\ searchInFlight' = searchInFlight
             /\ nextSearchId' = nextSearchId
             /\ lastRequest' = lastRequest
             /\ errorShown'
             /\ errorText' = EnterQuestionText
             /\ loadingShown' = loadingShown]_vars

C28_Witness ==
    /\ queryValue = <<" ", " ">>
    /\ errorShown
    /\ errorText = EnterQuestionText
    /\ ~loadingShown
    /\ searchInFlight = {}
    /\ nextSearchId = 1
    /\ ~lastRequest.sent

\* C29: the message of a showErrorMessage call is hidden by the timer of
\* that call and not earlier: a timer that hides the visible message is the
\* only one pending, no timer of an earlier call hides a later message.
C29_MessageHiddenByOwnTimer ==
    [][(ErrorHideTimer /\ errorShown) => errorHideTimers = 1]_vars

\* C30: the progress bar is filled with the error colour only if the most
\* recent upload attempt failed.
C30_ErrorColourOnlyAfterFailure ==
    (uploadProgressShown /\ progressWidth > 0 /\ progressErrorColor)
        => progressStatus = "error"

\* ---------------------------------------------------------------------
\* Excerpts: one text, cut by truncateText for a card summary and by
\* createSourceDocumentElement for a source document
\* ---------------------------------------------------------------------

\* truncateText(text, maxLength) is called
TruncateText ==
    /\ ~truncated.called
    /\ truncated' = [called |-> TRUE,
                     chars |-> truncateText(truncateArgs.text, truncateArgs.maxLength)]
    /\ UNCHANGED <<truncateArgs, textPreview, listVars, searchVars, fileVars,
                   uploadVars, manageVars, tabVars>>

\* createSourceDocumentElement reaches the part for doc.text
SourceTextPreview ==
    /\ ~textPreview.built
    /\ textPreview' = sourceText(truncateArgs.text)
    /\ UNCHANGED <<truncateArgs, truncated, listVars, searchVars, fileVars,
                   uploadVars, manageVars, tabVars>>

InitExcerpt ==
    /\ serverDocs = <<>>
    /\ listCalls = PageLoadCalls
    /\ latestGrid = NoGrid
    /\ documentGrid = [kind |-> "loading", cards |-> <<>>]
    /\ FormLoaded
    /\ frontend = "A"
    /\ TabsLoaded
    /\ SearchViewLoaded
    /\ UploadFormLoaded
    /\ ManageLoaded
    /\ serverAnswer = NoAnswerData
    /\ observeOutcomes = FALSE
    /\ observeConfirms = FALSE
    /\ \E text \in Texts, maxLength \in MaxLengths :
          truncateArgs = [text |-> text, maxLength |-> maxLength]
    /\ truncated = NotTruncated
    /\ textPreview = NoPreview

NextExcerpt == TruncateText \/ SourceTextPreview

SpecExcerpt == InitExcerpt /\ [][NextExcerpt]_vars

\* C31: truncateText(text, max) returns '' for a missing text, the text
\* itself when it has at most max characters, and otherwise its first max
\* characters followed by '...', so the result never has more than max + 3
\* characters; the source-text preview follows the same rule with max = 300
\* (a missing or empty text shows nothing).
C31_ExcerptWithinLimit ==
    LET text == truncateArgs.text
        n == Len(text.chars)
        Cut(chars, max) ==
            /\ Len(chars) = max + 3
            /\ \A i \in 1..max : chars[i] = text.chars[i]
            /\ \A i \in (max + 1)..(max + 3) : chars[i] = "."
        Rule(chars, max) ==
            /\ text.type # "string" => chars = <<>>
            /\ (text.type = "string" /\ n <= max) => chars = text.chars
            /\ (text.type = "string" /\ n > max) => Cut(chars, max)
            /\ Len(chars) <= max + 3
    IN /\ truncated.called => Rule(truncated.chars, truncateArgs.maxLength)
       /\ textPreview.built =>
             /\ Rule(textPreview.chars, PreviewMax)
             /\ textPreview.shown <=> (text.type = "string" /\ n > 0)

C31_Witness ==
    /\ truncateArgs.maxLength = SummaryMax
    /\ Len(truncateArgs.text.chars) = PreviewMax + 1
    /\ truncated.called
    /\ Len(truncated.chars) = SummaryMax + 3
    /\ textPreview.shown
    /\ Len(textPreview.chars) = PreviewMax + 3

====
